---- MODULE Spec2Model ----
(***************************************************************************)
(* The weekday date range picker of src/Components/DateRangePicker.jsx:    *)
(* the Date helpers (isWeekend, normalizeDate, getWeekendDates), the       *)
(* component state kept with useState, and the event handlers              *)
(* (handleDateClick, handlePredefinedRangeClick, the month and year        *)
(* selectors).                                                             *)
(*                                                                         *)
(* A JavaScript Date is an instant: milliseconds since 1970-01-01T00:00Z.  *)
(* It is modelled as the record [day |-> d, ms |-> m], d the number of     *)
(* whole UTC days since the epoch and m the millisecond of that UTC day,   *)
(* so that the instant is d * MsPerDay + m without leaving TLC's integers. *)
(* The local time zone is a fixed offset from UTC (no daylight saving      *)
(* transitions).  A YYYY-MM-DD string is modelled as <<year, month, day>>  *)
(* with month in 1..12.                                                    *)
(***************************************************************************)
EXTENDS Integers, Sequences, FiniteSets, TLC

VARIABLES
    timeZone,       \* minutes the local zone is east of UTC (fixed at mount)
    startDate,      \* useState(null), line 58
    endDate,        \* useState(null), line 59
    currentYear,    \* useState(new Date().getFullYear()), line 60
    currentMonth,   \* useState(new Date().getMonth()), line 61: 0..11
    weekendDates,   \* useState([]), line 62: sequence of date strings
    event,          \* the UI event handled last: [type, arg, from]
    onChangeCalls,  \* the calls of props.onChange made while handling it
    gwCall          \* the call of a utility function made while handling it,
                    \* or made directly: [start, end, done, result]

vars == <<timeZone, startDate, endDate, currentYear, currentMonth,
          weekendDates, event, onChangeCalls, gwCall>>

selection == <<startDate, endDate, weekendDates>>
view == <<currentYear, currentMonth>>

-----------------------------------------------------------------------------
(* Bounds of the model: the environments and the inputs that are explored. *)

\* Offsets of the local zone from UTC, in minutes east: New York (winter),
\* UTC, India.
TimeZones == {-300, 0, 330}

\* The years the year selector may be set to: 2022 and the YearSpan years
\* after it.
YearSpan == 1
Years == 2022 .. (2022 + YearSpan)

\* The months (0..11) the month selector may be set to.
Months == {0, 11}

\* The day cells of the displayed month that are clicked.
ClickDays == {1, 3, 4, 15}

\* The local wall-clock moments <<year, month, day, ms of the day>> at which
\* a predefined range is activated: Saturday 2022-12-31 23:30:00.000 and
\* Wednesday 2023-03-15 10:30:00.500.
TodayMoments ==
    { <<2022, 12, 31, ((23 * 60 + 30) * 60) * 1000>>,
      <<2023, 3, 15, ((10 * 60 + 30) * 60) * 1000 + 500>> }

\* The moments at which the component is mounted.
MountMoments == {m \in TodayMoments : m[1] = 2022}

\* The names of the predefined-range buttons (props.predefinedRanges): the two
\* that App passes and one that the handler's switch does not know.
PredefinedRanges == {"Last 7 Days", "Last 30 Days", "This Month"}

-----------------------------------------------------------------------------
(* The calendar arithmetic of the Date object.                             *)

MsPerSecond == 1000
MsPerMinute == 60 * MsPerSecond
MsPerDay == 24 * 60 * MsPerMinute

Null == [null |-> TRUE]

\* The instant `ms` milliseconds after the start of UTC day `day`; ms may be
\* negative or exceed a day.
MkDate(day, ms) == [day |-> day + (ms \div MsPerDay), ms |-> ms % MsPerDay]

\* Days since 1970-01-01 of the proleptic Gregorian date y-m-d, m in 1..12.
DaysFromCivil(y, m, d) ==
    LET yy == IF m <= 2 THEN y - 1 ELSE y
        era == yy \div 400
        yoe == yy - era * 400
        mp == IF m > 2 THEN m - 3 ELSE m + 9
        doy == (153 * mp + 2) \div 5 + d - 1
        doe == yoe * 365 + yoe \div 4 - yoe \div 100 + doy
    IN  era * 146097 + doe - 719468

\* The Gregorian date <<y, m, d>> of day number z.
CivilFromDays(z) ==
    LET zz == z + 719468
        era == zz \div 146097
        doe == zz - era * 146097
        yoe == (doe - doe \div 1460 + doe \div 36524 - doe \div 146096) \div 365
        doy == doe - (365 * yoe + yoe \div 4 - yoe \div 100)
        mp == (5 * doy + 2) \div 153
        d == doy - (153 * mp + 2) \div 5 + 1
        m == IF mp < 10 THEN mp + 3 ELSE mp - 9
        y == yoe + era * 400
    IN  <<IF m <= 2 THEN y + 1 ELSE y, m, d>>

\* ECMAScript MakeDay: the day number of day `dt` of month `month0` (0-based,
\* any integer) of `year`; dt may be <= 0 or exceed the month's length.
MakeDay(year, month0, dt) ==
    DaysFromCivil(year + (month0 \div 12), (month0 % 12) + 1, 1) + dt - 1

\* The local wall clock of instant t: [day |-> local day number, ms |-> ms of
\* the local day].
LocalTime(t) == MkDate(t.day, t.ms + timeZone * MsPerMinute)

\* The instant whose local wall clock is local day `day`, `ms` into the day.
FromLocal(day, ms) == MkDate(day, ms - timeZone * MsPerMinute)

\* new Date(year, month0, dt): local midnight of that local calendar day.
NewDate(year, month0, dt) == FromLocal(MakeDay(year, month0, dt), 0)

\* Date.prototype.getFullYear / getMonth / getDate / getDay: local fields.
getFullYear(t) == CivilFromDays(LocalTime(t).day)[1]
getMonth(t) == CivilFromDays(LocalTime(t).day)[2] - 1
getDate(t) == CivilFromDays(LocalTime(t).day)[3]
getDay(t) == (LocalTime(t).day + 4) % 7

\* Date.prototype.setDate(dt): day dt of the local month of t, same local time.
setDate(t, dt) ==
    LET loc == LocalTime(t)
        c == CivilFromDays(loc.day)
    IN  FromLocal(MakeDay(c[1], c[2] - 1, dt), loc.ms)

\* date.toISOString().split('T')[0]: the UTC calendar date of the instant.
toISODate(t) == CivilFromDays(t.day)

\* The relational operators on Dates compare the instants.
DateLT(a, b) == a.day < b.day \/ (a.day = b.day /\ a.ms < b.ms)
DateLE(a, b) == a.day < b.day \/ (a.day = b.day /\ a.ms <= b.ms)

-----------------------------------------------------------------------------
(* The utility functions, lines 9-44.                                      *)

isWeekend_SundayOnly(date) == getDay(date) = 0

isWeekend(date) ==
    LET day == getDay(date)
    IN  day = 0 \/ day = 6

\* date.toLocaleString('en-US', {timeZone: <local zone>}): the local date and
\* the local time to the second, "M/D/YYYY, h:mm:ss AM".
toLocaleString(t) ==
    LET loc == LocalTime(t)
    IN  [date |-> CivilFromDays(loc.day), sec |-> loc.ms \div MsPerSecond]

\* new Date(<that string>): the string read as local wall-clock time.
parseLocal(s) ==
    FromLocal(DaysFromCivil(s.date[1], s.date[2], s.date[3]), s.sec * MsPerSecond)

normalizeDate(date) == parseLocal(toLocaleString(date))

\* The values currentDate takes in the while loop of lines 34-41: the start,
\* then one setDate(getDate() + 1) after the other (the k-th value is k days
\* of the local calendar after the start), for as long as it is <= last.
currentDates(first, last) ==
    SelectSeq([i \in 1 .. (last.day - first.day + 1) |->
                   setDate(first, getDate(first) + (i - 1))],
              LAMBDA d : DateLE(d, last))

\* weekends.push(currentDate.toISOString().split('T')[0]) for each weekend.
toISODates(dates) == [i \in 1 .. Len(dates) |-> toISODate(dates[i])]

getWeekendDates(start, end) ==
    toISODates(SelectSeq(currentDates(normalizeDate(start), normalizeDate(end)),
                         isWeekend))

-----------------------------------------------------------------------------
(* The component, lines 57-208.                                            *)

\* The selection state before an event: the three states of the nullable pair.
SelectionState ==
    IF startDate = Null THEN "Empty"
    ELSE IF endDate = Null THEN "PartialSelection"
    ELSE "CompleteSelection"

\* props.onChange(range, weekendDates) invoked once.
onChange_Dropped(range, weekends) == <<>>

onChange_ReversedRange(range, weekends) ==
    <<[range |-> <<range[2], range[1]>>, weekendDates |-> weekends]>>

onChange(range, weekends) == <<[range |-> range, weekendDates |-> weekends]>>

\* new Date() at the local wall-clock moment m.
now(m) == FromLocal(DaysFromCivil(m[1], m[2], m[3]), m[4])

NoCall == [start |-> Null, end |-> Null, done |-> FALSE, result |-> <<>>]

\* The call getWeekendDates(start, end) of lines 82 and 164, and its result.
weekendCall_Swapped(start, end) ==
    [start |-> end, end |-> start, done |-> TRUE,
     result |-> getWeekendDates(end, start)]

weekendCall(start, end) ==
    [start |-> start, end |-> end, done |-> TRUE,
     result |-> getWeekendDates(start, end)]

\* needsNewStart: the condition of line 75, a click that starts a selection.
startsSelection_EmptyOnly == startDate = Null

startsSelection == startDate = Null \/ (startDate # Null /\ endDate # Null)

\* The comparison of line 80: the clicked day is later than the start.
isAfterStart_OrEqual(normalizedDate) == DateLE(startDate, normalizedDate)

isAfterStart(normalizedDate) == DateLT(startDate, normalizedDate)

\* handleDateClick, lines 69-95.
handleDateClick(date) ==
    LET normalizedDate == normalizeDate(date)
    IN  /\ event' = [type |-> "click", arg |-> date, from |-> SelectionState]
        /\ UNCHANGED <<timeZone, view>>
        /\ IF isWeekend(normalizedDate)
           THEN /\ UNCHANGED selection
                /\ onChangeCalls' = <<>>
                /\ gwCall' = NoCall
           ELSE IF startsSelection
           THEN /\ startDate' = normalizedDate
                /\ endDate' = Null
                /\ weekendDates' = <<>>
                /\ onChangeCalls' = <<>>
                /\ gwCall' = NoCall
           ELSE IF startDate # Null /\ endDate = Null
           THEN IF isAfterStart(normalizedDate)
                THEN LET call == weekendCall(startDate, normalizedDate)
                         weekends == call.result
                     IN  /\ endDate' = normalizedDate
                         /\ weekendDates' = weekends
                         /\ onChangeCalls' =
                                onChange(<<toISODate(startDate), toISODate(normalizedDate)>>,
                                         weekends)
                         /\ gwCall' = call
                         /\ UNCHANGED startDate
                ELSE /\ startDate' = normalizedDate
                     /\ weekendDates' = <<>>
                     /\ onChangeCalls' = <<>>
                     /\ gwCall' = NoCall
                     /\ UNCHANGED endDate
           ELSE /\ UNCHANGED selection
                /\ onChangeCalls' = <<>>
                /\ gwCall' = NoCall

\* new Date(currentYear, currentMonth + 1, 0).getDate(), line 103.
daysInMonth == getDate(NewDate(currentYear, currentMonth + 1, 0))

\* date.toDateString(): the weekday and the date of the local calendar day.
toDateString(t) == <<getDay(t), CivilFromDays(LocalTime(t).day)>>

\* const date = new Date(currentYear, currentMonth, day), line 119.
cellDate(day) == NewDate(currentYear, currentMonth, day)

\* isSelected, lines 120-121.
isSelected(day) ==
    \/ (startDate # Null /\ toDateString(cellDate(day)) = toDateString(startDate))
    \/ (endDate # Null /\ toDateString(cellDate(day)) = toDateString(endDate))

\* isHighlighted, line 122.
isHighlighted(day) ==
    /\ startDate # Null
    /\ endDate # Null
    /\ DateLE(startDate, cellDate(day))
    /\ DateLE(cellDate(day), endDate)

\* The day cells of renderCalendar, lines 118-133, with the class names of
\* line 128.
renderCalendar ==
    [day \in 1 .. daysInMonth |->
        [highlighted |-> isHighlighted(day),
         selected |-> isSelected(day),
         weekend |-> isWeekend(cellDate(day))]]

\* A click on a day cell of the rendered month, lines 118-127.
ClickDay ==
    \E day \in ClickDays :
        /\ day <= daysInMonth
        /\ handleDateClick(NewDate(currentYear, currentMonth, day))

\* The window of a predefined range, lines 147-160: <<start, end>>, or Null
\* for a name the switch does not know.
predefinedWindow_Forward(range, today) ==
    IF range = "Last 7 Days" THEN <<setDate(today, getDate(today) + 6), today>>
    ELSE IF range = "Last 30 Days" THEN <<setDate(today, getDate(today) + 29), today>>
    ELSE Null

predefinedWindow_DefaultLast7(range, today) ==
    IF range = "Last 30 Days" THEN <<setDate(today, getDate(today) - 29), today>>
    ELSE <<setDate(today, getDate(today) - 6), today>>

predefinedWindow(range, today) ==
    IF range = "Last 7 Days" THEN <<setDate(today, getDate(today) - 6), today>>
    ELSE IF range = "Last 30 Days" THEN <<setDate(today, getDate(today) - 29), today>>
    ELSE Null

\* handlePredefinedRangeClick, lines 143-167, at the instant `today`.
handlePredefinedRangeClick_JumpsView(range, today) ==
    LET window == predefinedWindow(range, today)
    IN  /\ event' = [type |-> "range", arg |-> range, from |-> SelectionState]
        /\ UNCHANGED timeZone
        /\ IF window = Null
           THEN /\ UNCHANGED <<selection, view>>
                /\ onChangeCalls' = <<>>
                /\ gwCall' = NoCall
           ELSE LET start == window[1]
                    end == window[2]
                    call == weekendCall(start, end)
                    weekends == call.result
                IN  /\ startDate' = start
                    /\ endDate' = end
                    /\ weekendDates' = weekends
                    /\ currentYear' = getFullYear(end)
                    /\ currentMonth' = getMonth(end)
                    /\ onChangeCalls' =
                           onChange(<<toISODate(start), toISODate(end)>>, weekends)
                    /\ gwCall' = call

handlePredefinedRangeClick(range, today) ==
    LET window == predefinedWindow(range, today)
    IN  /\ event' = [type |-> "range", arg |-> range, from |-> SelectionState]
        /\ UNCHANGED <<timeZone, view>>
        /\ IF window = Null
           THEN /\ UNCHANGED selection
                /\ onChangeCalls' = <<>>
                /\ gwCall' = NoCall
           ELSE LET start == window[1]
                    end == window[2]
                    call == weekendCall(start, end)
                    weekends == call.result
                IN  /\ startDate' = start
                    /\ endDate' = end
                    /\ weekendDates' = weekends
                    /\ onChangeCalls' =
                           onChange(<<toISODate(start), toISODate(end)>>, weekends)
                    /\ gwCall' = call

ClickPredefinedRange ==
    \E range \in PredefinedRanges, m \in TodayMoments :
        handlePredefinedRangeClick(range, now(m))

\* The month selector, line 173: setCurrentMonth(Number(e.target.value)).
SelectMonth_RecomputesWeekends ==
    \E value \in (0 .. 11) \cap Months :
        /\ currentMonth' = value
        /\ event' = [type |-> "month", arg |-> value, from |-> SelectionState]
        /\ onChangeCalls' =
               IF startDate # Null /\ endDate # Null
               THEN onChange(<<toISODate(startDate), toISODate(endDate)>>, weekendDates)
               ELSE <<>>
        /\ gwCall' = NoCall
        /\ UNCHANGED <<timeZone, selection, currentYear>>

SelectMonth ==
    \E value \in (0 .. 11) \cap Months :
        /\ currentMonth' = value
        /\ event' = [type |-> "month", arg |-> value, from |-> SelectionState]
        /\ onChangeCalls' = <<>>
        /\ gwCall' = NoCall
        /\ UNCHANGED <<timeZone, selection, currentYear>>

\* The year selector, lines 180-186: 50 options from currentYear - 10.
SelectYear_ClearsSelection ==
    \E value \in {currentYear - 10 + index : index \in 0 .. 49} \cap Years :
        /\ currentYear' = value
        /\ event' = [type |-> "year", arg |-> value, from |-> SelectionState]
        /\ onChangeCalls' = <<>>
        /\ gwCall' = NoCall
        /\ startDate' = Null
        /\ endDate' = Null
        /\ weekendDates' = <<>>
        /\ UNCHANGED <<timeZone, currentMonth>>

SelectYear ==
    \E value \in {currentYear - 10 + index : index \in 0 .. 49} \cap Years :
        /\ currentYear' = value
        /\ event' = [type |-> "year", arg |-> value, from |-> SelectionState]
        /\ onChangeCalls' = <<>>
        /\ gwCall' = NoCall
        /\ UNCHANGED <<timeZone, selection, currentMonth>>

\* The state after the first render: lines 58-62.
Mount(tz) ==
    /\ timeZone = tz
    /\ startDate = Null
    /\ endDate = Null
    /\ \E m \in MountMoments :
          /\ currentYear = getFullYear(now(m))
          /\ currentMonth = getMonth(now(m))
    /\ weekendDates = <<>>
    /\ event = [type |-> "mount", arg |-> Null, from |-> "Empty"]
    /\ onChangeCalls = <<>>

Init == (\E tz \in TimeZones : Mount(tz)) /\ gwCall = NoCall

Next ==
    \/ ClickDay
    \/ ClickPredefinedRange
    \/ SelectMonth
    \/ SelectYear

Spec == Init /\ [][Next]_vars

-----------------------------------------------------------------------------
(* getWeekendDates called directly, on inputs that carry a time of day.    *)

\* The local wall-clock moments the arguments are drawn from: days around the
\* turn of 2023/2024 and around 29 February 2024, at 00:00, 09:00 and
\* 10:00:00.250.
GwDays ==
    { <<2023, 12, 30>>, <<2024, 1, 1>>, <<2024, 2, 24>>, <<2024, 2, 25>>,
      <<2024, 2, 29>>, <<2024, 3, 2>> }
GwTimes == {0, (9 * 60 * 60) * 1000, (10 * 60 * 60) * 1000 + 250}
GwMoments == {<<d[1], d[2], d[3], t>> : d \in GwDays, t \in GwTimes}

InitGW ==
    /\ \E tz \in TimeZones : Mount(tz)
    /\ \E s \in GwMoments, e \in GwMoments :
          /\ DateLE(now(s), now(e))
          /\ gwCall = [start |-> now(s), end |-> now(e), done |-> FALSE,
                       result |-> <<>>]

CallGetWeekendDates ==
    /\ ~gwCall.done
    /\ gwCall' = [gwCall EXCEPT !.done = TRUE,
                                !.result = getWeekendDates(gwCall.start, gwCall.end)]
    /\ UNCHANGED <<timeZone, selection, view, event, onChangeCalls>>

NextGW == CallGetWeekendDates

SpecGW == InitGW /\ [][NextGW]_vars

-----------------------------------------------------------------------------
(* normalizeDate called directly, on two inputs.                           *)

InitND ==
    /\ \E tz \in TimeZones : Mount(tz)
    /\ \E a \in GwMoments, b \in GwMoments :
          gwCall = [start |-> now(a), end |-> now(b), done |-> FALSE,
                    result |-> <<>>]

\* result = <<normalizeDate(first input), normalizeDate(second input)>>.
CallNormalizeDate ==
    /\ ~gwCall.done
    /\ gwCall' = [gwCall EXCEPT !.done = TRUE,
                                !.result = <<normalizeDate(gwCall.start),
                                             normalizeDate(gwCall.end)>>]
    /\ UNCHANGED <<timeZone, selection, view, event, onChangeCalls>>

NextND == CallNormalizeDate

SpecND == InitND /\ [][NextND]_vars

-----------------------------------------------------------------------------
(* The vocabulary of the properties: local calendar days, by day number.   *)

\* The local calendar day (day number) on which instant t falls.
LocalDayOf(t) == LocalTime(t).day

\* Day number `day` is a Saturday or a Sunday (1970-01-01 was a Thursday).
IsSaturdayOrSunday(day) == (day + 4) % 7 \in {0, 6}

\* The YYYY-MM-DD string of day number `day`.
DayString(day) == CivilFromDays(day)

\* The strings of the Saturdays and Sundays of the days first..last, in order.
WeekendDaysBetween(first, last) ==
    LET days == SelectSeq([i \in 1 .. (last - first + 1) |-> first + (i - 1)],
                          IsSaturdayOrSunday)
    IN  [i \in 1 .. Len(days) |-> DayString(days[i])]

\* The step is the handling of a click on the day cell of weekday / weekend d.
ClickedWeekday == event'.type = "click" /\ ~IsSaturdayOrSunday(LocalDayOf(event'.arg))
ClickedWeekend == event'.type = "click" /\ IsSaturdayOrSunday(LocalDayOf(event'.arg))

\* The step is the activation of 'Last 7 Days' or 'Last 30 Days'.
ActivatedKnownRange == event'.type = "range" /\ event'.arg \in {"Last 7 Days", "Last 30 Days"}

-----------------------------------------------------------------------------
(* The properties.                                                         *)

\* C1: startDate and endDate, when set, are never a Saturday or a Sunday.
C1_EndpointsNeverWeekend ==
    /\ startDate # Null => ~IsSaturdayOrSunday(LocalDayOf(startDate))
    /\ endDate # Null => ~IsSaturdayOrSunday(LocalDayOf(endDate))

\* C2: if endDate is set then startDate is set and strictly earlier.
C2_StartBeforeEnd ==
    endDate # Null => (startDate # Null /\ DateLT(startDate, endDate))

C2_Witness ==
    /\ endDate # Null
    /\ event.type = "range"
    /\ event.from = "PartialSelection"

\* C3: weekendDates is empty unless both dates are set, and then it is the
\* ordered list of every Saturday and Sunday of the days startDate..endDate.
C3_WeekendDatesOfRange ==
    IF startDate = Null \/ endDate = Null
    THEN weekendDates = <<>>
    ELSE weekendDates = WeekendDaysBetween(LocalDayOf(startDate), LocalDayOf(endDate))

\* C4: an event invokes onChange exactly once if it completes a selection (a
\* day click that sets endDate, or the activation of a predefined range) and
\* not at all otherwise.
C4_OnChangeOncePerCompletion ==
    [][ Len(onChangeCalls') =
            IF \/ (event'.type = "click" /\ endDate = Null /\ endDate' # Null)
               \/ ActivatedKnownRange
            THEN 1 ELSE 0 ]_vars

C4_Witness ==
    /\ event.type = "click"
    /\ endDate # Null
    /\ Len(onChangeCalls) = 1

\* C5: in PartialSelection with start s, a click on a weekday d later than s
\* sets endDate = d, keeps startDate = s and invokes onChange once with the
\* range [s, d] and the Saturdays and Sundays between s and d, as strings of
\* those calendar days.
C5_ClickCompletesRange ==
    [][ (startDate # Null /\ endDate = Null /\ ClickedWeekday
            /\ DateLT(startDate, event'.arg))
        => /\ endDate' = event'.arg
           /\ startDate' = startDate
           /\ onChangeCalls' =
                 << [range |-> << DayString(LocalDayOf(startDate)),
                                  DayString(LocalDayOf(event'.arg)) >>,
                     weekendDates |-> WeekendDaysBetween(LocalDayOf(startDate),
                                                         LocalDayOf(event'.arg))] >>
      ]_vars

\* C6: a click on a Saturday or Sunday leaves startDate, endDate and
\* weekendDates unchanged and does not invoke onChange.
C6_WeekendClickIgnored ==
    [][ ClickedWeekend => (UNCHANGED selection /\ onChangeCalls' = <<>>) ]_vars

C6_Witness ==
    /\ event.type = "click"
    /\ IsSaturdayOrSunday(LocalDayOf(event.arg))
    /\ event.from = "PartialSelection"
    /\ startDate # Null
    /\ endDate = Null

\* C7: in PartialSelection with start s, a click on a weekday d not later than
\* s makes d the start, leaves endDate unset and weekendDates empty and does
\* not invoke onChange; a click on s itself changes nothing of the selection.
C7_EarlierClickRestarts ==
    [][ (startDate # Null /\ endDate = Null /\ ClickedWeekday
            /\ ~DateLT(startDate, event'.arg))
        => /\ startDate' = event'.arg
           /\ endDate' = Null
           /\ weekendDates' = <<>>
           /\ onChangeCalls' = <<>>
           /\ (event'.arg = startDate => UNCHANGED selection)
      ]_vars

C7_Witness ==
    /\ event.type = "click"
    /\ event.from = "PartialSelection"
    /\ ~IsSaturdayOrSunday(LocalDayOf(event.arg))
    /\ startDate = event.arg
    /\ endDate = Null

\* C8: from Empty or CompleteSelection, a click on a weekday d sets
\* startDate = d, clears endDate and weekendDates and does not invoke onChange.
C8_ClickStartsSelection ==
    [][ ((startDate = Null \/ endDate # Null) /\ ClickedWeekday)
        => /\ startDate' = event'.arg
           /\ endDate' = Null
           /\ weekendDates' = <<>>
           /\ onChangeCalls' = <<>>
      ]_vars

C8_Witness ==
    /\ event.type = "click"
    /\ event.from = "CompleteSelection"
    /\ startDate = event.arg
    /\ endDate = Null
    /\ weekendDates = <<>>

\* C9: activating 'Last N Days' sets endDate to a moment of today and
\* startDate N-1 days before it, sets weekendDates to every Saturday and
\* Sunday of those N calendar days and invokes onChange once with the strings
\* of the first and last of those days and that list.
C9_PredefinedRangeCoversLastDays ==
    [][ ActivatedKnownRange
        => LET n == IF event'.arg = "Last 7 Days" THEN 7 ELSE 30
               last == LocalDayOf(endDate')
               first == last - (n - 1)
           IN  /\ startDate' # Null /\ endDate' # Null
               /\ LocalDayOf(startDate') = first
               /\ weekendDates' = WeekendDaysBetween(first, last)
               /\ onChangeCalls' =
                     << [range |-> <<DayString(first), DayString(last)>>,
                         weekendDates |-> WeekendDaysBetween(first, last)] >>
      ]_vars

\* C10: for start <= end, getWeekendDates(start, end) returns strings of days
\* in strictly increasing order, all within the days start..end, all Saturdays
\* or Sundays, and omits no Saturday or Sunday of start..end.
C10_GetWeekendDatesComplete ==
    gwCall.done =>
        LET result == gwCall.result
            dayOf(i) == DaysFromCivil(result[i][1], result[i][2], result[i][3])
            first == LocalDayOf(gwCall.start)
            last == LocalDayOf(gwCall.end)
        IN  /\ \A i \in 1 .. Len(result) - 1 : dayOf(i) < dayOf(i + 1)
            /\ \A i \in 1 .. Len(result) :
                  /\ first <= dayOf(i) /\ dayOf(i) <= last
                  /\ IsSaturdayOrSunday(dayOf(i))
            /\ \A day \in first .. last :
                  IsSaturdayOrSunday(day) => \E i \in 1 .. Len(result) : dayOf(i) = day

\* C11: in every time zone, the strings passed to onChange name the local
\* calendar days of the selection: the range strings are the local days of
\* startDate and endDate, and every weekend string is the local day of a
\* Saturday or Sunday inside the range.
C11_StringsNameLocalDays ==
    onChangeCalls # <<>> =>
        LET call == onChangeCalls[1]
            first == LocalDayOf(startDate)
            last == LocalDayOf(endDate)
            dayOf(str) == DaysFromCivil(str[1], str[2], str[3])
        IN  /\ call.range = <<DayString(first), DayString(last)>>
            /\ \A i \in 1 .. Len(call.weekendDates) :
                  /\ IsSaturdayOrSunday(dayOf(call.weekendDates[i]))
                  /\ first <= dayOf(call.weekendDates[i])
                  /\ dayOf(call.weekendDates[i]) <= last

\* C12: normalizeDate maps two inputs of the same local calendar day to equal
\* values, and its value has no time of day (it is a local midnight).
C12_NormalizeDateByCalendarDay ==
    gwCall.done =>
        /\ (LocalDayOf(gwCall.start) = LocalDayOf(gwCall.end)
               => gwCall.result[1] = gwCall.result[2])
        /\ LocalTime(gwCall.result[1]).ms = 0
        /\ LocalTime(gwCall.result[2]).ms = 0

\* C13: with a complete selection, no cell of the displayed month that falls
\* on a Saturday or Sunday is marked highlighted.
C13_WeekendCellsNotHighlighted ==
    (startDate # Null /\ endDate # Null) =>
        \A day \in DOMAIN renderCalendar :
            IsSaturdayOrSunday(LocalDayOf(cellDate(day)))
                => ~renderCalendar[day].highlighted

\* C15: with both dates set, a cell is marked highlighted iff its calendar day
\* lies in the inclusive range from the start day to the end day, and marked
\* selected iff its calendar day is the start day or the end day.
C15_CellsMarkedByCalendarDay ==
    (startDate # Null /\ endDate # Null) =>
        \A day \in DOMAIN renderCalendar :
            LET cell == LocalDayOf(cellDate(day))
                first == LocalDayOf(startDate)
                last == LocalDayOf(endDate)
            IN  /\ renderCalendar[day].highlighted <=> (first <= cell /\ cell <= last)
                /\ renderCalendar[day].selected <=> (cell = first \/ cell = last)

\* C14: a month or year selector change changes only the displayed month or
\* year: startDate, endDate and weekendDates are unchanged, getWeekendDates
\* is not called and onChange is not invoked.
C14_SelectorsChangeOnlyTheView ==
    [][ /\ event'.type = "month"
            => (UNCHANGED <<selection, currentYear>>
                /\ currentMonth' = event'.arg
                /\ ~gwCall'.done
                /\ onChangeCalls' = <<>>)
        /\ event'.type = "year"
            => (UNCHANGED <<selection, currentMonth>>
                /\ currentYear' = event'.arg
                /\ ~gwCall'.done
                /\ onChangeCalls' = <<>>)
      ]_vars

C14_Witness ==
    /\ event.type = "month"
    /\ event.from = "CompleteSelection"
    /\ endDate # Null
    /\ weekendDates # <<>>

\* C16: every call of getWeekendDates made while handling a day click or a
\* predefined-range activation has start <= end.
C16_WeekendCallsOrdered ==
    (event.type \in {"click", "range"} /\ gwCall.done)
        => DateLE(gwCall.start, gwCall.end)

C16_Witness ==
    /\ event.type = "click"
    /\ gwCall.done
    /\ gwCall.start = startDate
    /\ gwCall.end = endDate

\* C17: a day click and a predefined-range activation leave the displayed
\* year and month unchanged.
C17_ViewChangesOnlyBySelectors ==
    [][ event'.type \in {"click", "range"} => UNCHANGED view ]_vars

\* A predefined range was activated whose end lies outside the displayed month.
C17_Witness ==
    /\ event.type = "range"
    /\ endDate # Null
    /\ <<getFullYear(endDate), getMonth(endDate)>> # <<currentYear, currentMonth>>

\* C18: whenever onChange is invoked, its range is the start day and the end
\* day of the state after the event, as the component prints them (line 201),
\* and its weekend list is the weekendDates of that state.
C18_OnChangeMatchesState ==
    onChangeCalls # <<>> =>
        /\ Len(onChangeCalls) = 1
        /\ startDate # Null
        /\ endDate # Null
        /\ onChangeCalls[1].range = <<toISODate(startDate), toISODate(endDate)>>
        /\ onChangeCalls[1].weekendDates = weekendDates

C18_Witness ==
    /\ onChangeCalls # <<>>
    /\ event.type = "click"
    /\ weekendDates # <<>>

\* C19: activating a predefined range whose name is neither 'Last 7 Days' nor
\* 'Last 30 Days' leaves startDate, endDate, weekendDates and the displayed
\* month and year unchanged and does not invoke onChange.
C19_UnknownRangeIgnored ==
    [][ (event'.type = "range" /\ ~ActivatedKnownRange)
        => (UNCHANGED <<selection, view>> /\ onChangeCalls' = <<>>) ]_vars

C19_Witness ==
    /\ event.type = "range"
    /\ event.arg = "This Month"
    /\ event.from = "PartialSelection"
    /\ startDate # Null
    /\ endDate = Null

\* C20: once startDate is set, no event makes it unset again.
C20_EmptyNeverReentered ==
    [][ startDate # Null => startDate' # Null ]_vars

C20_Witness ==
    /\ event.from = "CompleteSelection"
    /\ event.type = "year"
    /\ startDate # Null

====
